---- MODULE Spec2Model ----
(***************************************************************************)
(* Model of reAct_beyond_llms.py: the invoice-payment workflow.  The step  *)
(* handlers and the Reasoner are operators computed as the code they       *)
(* model computes them; run_episode is a state machine, one action per     *)
(* branch of its loop body.  A second specification, SpecTools, calls the  *)
(* handlers directly on arbitrary accounts and amounts.                    *)
(*                                                                         *)
(* Amounts are Python ints (unbounded), so no wrap-around is modelled.     *)
(* Dates are day ordinals.  An Optional[T] is <<>> (None) or <<v>>.        *)
(* Memory.log prefixes each line with a wall-clock timestamp; the prefix   *)
(* is left out of the modelled line, nothing in the program reads it.      *)
(*                                                                         *)
(* Specifications: Spec, one run from a fresh Memory; SpecTools, the       *)
(* handlers alone; SpecPlanner, the Reasoner on any Memory; SpecShared,    *)
(* two runs on one Account whose loop iterations interleave.               *)
(***************************************************************************)
EXTENDS Integers, Sequences, FiniteSets, TLC

VARIABLES mem, account, step, pc, today, call, initial, other

vars == <<mem, account, step, pc, today, call, initial, other>>

----------------------------------------------------------------------------
(* Bounds of the explored inputs *)

MaxAmount == 3
MaxBalance == 3
MaxLimit == 3
MaxSpent == 2
MaxDebt == 1
MaxCents == 3
MaxSteps == 9
MaxPlanPart == 2

(* Values of the demo run (Scenario A of the specification) *)
DemoAmount == 25000
DemoBalance == 18000
DemoLimit == 50000

(* tool_validate_invoice: an invoice due more than StaleDays ago is stale *)
StaleDays == 30

SmallCents(max) == (0 - MaxDebt)..max
Amounts == SmallCents(MaxAmount) \cup {DemoAmount}
Balances == SmallCents(MaxBalance) \cup {DemoBalance}
Limits == SmallCents(MaxLimit) \cup {DemoLimit}
Spents == SmallCents(MaxSpent)
CentsArgs == SmallCents(MaxCents)

Currencies == {"USD", "JPY"}
Todays == {40, 41}
DueDates == {9, 10, 45}
VendorIds == { <<"A", "C", "M", "E", "_", "C", "O">>,
               <<"V", "X">>,
               <<"O", "F", "A", "C", "1", "2", "3">>,
               <<>> }

----------------------------------------------------------------------------
(* Values *)

None == <<>>
Some(v) == <<v>>

(* str of a vendor id kept as a sequence of characters *)
RECURSIVE Str(_)
Str(s) == IF s = <<>> THEN "" ELSE Head(s) \o Str(Tail(s))

(* f"{cents/100:.2f}" *)
Fmt2(cents) ==
    LET a == IF cents < 0 THEN 0 - cents ELSE cents
    IN  (IF cents < 0 THEN "-" ELSE "")
        \o ToString(a \div 100) \o "." \o ToString((a % 100) \div 10) \o ToString(a % 10)

(* str(date) of an Optional[date] *)
DateStr(d) == IF d = None THEN "None" ELSE ToString(d[1])

Min(a, b) == IF a <= b THEN a ELSE b
Max(a, b) == IF a >= b THEN a ELSE b

Invoice(vendor_id, amount, currency, due_date) ==
    [vendor_id |-> vendor_id, amount |-> amount, currency |-> currency, due_date |-> due_date]

Account(balance_cents, daily_limit_cents, spent_today_cents) ==
    [balance_cents |-> balance_cents, daily_limit_cents |-> daily_limit_cents,
     spent_today_cents |-> spent_today_cents]

PaymentPlan(total_cents, currency, immediate_cents, scheduled_cents, scheduled_date) ==
    [total_cents |-> total_cents, currency |-> currency, immediate_cents |-> immediate_cents,
     scheduled_cents |-> scheduled_cents, scheduled_date |-> scheduled_date]

Memory(invoice) ==
    [invoice |-> invoice, vendor_kyc_ok |-> None, vendor_aml_ok |-> None,
     payment_plan |-> None, executed_amount_cents |-> 0, scheduled |-> FALSE,
     errors |-> <<>>, audit_log |-> <<>>]

(* Memory.log: one line appended to the audit log *)
Line(kind, n, text) == [kind |-> kind, step |-> n, text |-> text]
log(m, kind, n, text) == [m EXCEPT !.audit_log = Append(@, Line(kind, n, text))]

----------------------------------------------------------------------------
(* Tools *)

SupportedCurrencies == {"USD", "EUR", "GBP"}

(* tool_validate_invoice that tests the currency before the amount *)
tool_validate_invoice_currency_first(m, now) ==
    LET inv == m.invoice
    IN  IF inv.currency \notin SupportedCurrencies
        THEN [ok |-> FALSE, msg |-> "Unsupported currency " \o inv.currency \o "."]
        ELSE IF inv.amount <= 0 THEN [ok |-> FALSE, msg |-> "Invalid invoice amount."]
        ELSE IF inv.due_date < now - StaleDays
             THEN [ok |-> FALSE, msg |-> "Invoice is too old."]
        ELSE [ok |-> TRUE, msg |-> "Invoice validated."]

tool_validate_invoice(m, now) ==
    LET inv == m.invoice
    IN  IF inv.amount <= 0 THEN [ok |-> FALSE, msg |-> "Invalid invoice amount."]
        ELSE IF inv.currency \notin SupportedCurrencies
             THEN [ok |-> FALSE, msg |-> "Unsupported currency " \o inv.currency \o "."]
        ELSE IF inv.due_date < now - StaleDays
             THEN [ok |-> FALSE, msg |-> "Invoice is too old."]
        ELSE [ok |-> TRUE, msg |-> "Invoice validated."]

tool_run_kyc(vendor_id) ==
    LET ok == ~(Len(vendor_id) > 0 /\ vendor_id[Len(vendor_id)] = "X")
    IN  [ok |-> ok, msg |-> IF ok THEN "KYC passed." ELSE "KYC failed."]

denylist == {"OFAC123", "AML999"}

tool_run_aml_screening(vendor_id) ==
    LET ok == Str(vendor_id) \notin denylist
    IN  [ok |-> ok, msg |-> IF ok THEN "AML screening passed." ELSE "AML screening flagged vendor."]

tool_check_balance(acct, amount_cents) ==
    LET ok == acct.balance_cents >= amount_cents
    IN  [ok |-> ok, msg |-> IF ok THEN "Sufficient balance." ELSE "Insufficient balance."]

tool_check_daily_limit(acct, amount_cents) ==
    LET ok == (acct.spent_today_cents + amount_cents) <= acct.daily_limit_cents
    IN  [ok |-> ok, msg |-> IF ok THEN "Within daily limit." ELSE "Exceeds daily limit."]

(* tool_propose_plan that leaves the daily limit out of the immediate part *)
tool_propose_plan_no_limit(m, acct, now) ==
    LET inv == m.invoice
        immediate == Min(inv.amount, acct.balance_cents)
        remainder == inv.amount - immediate
    IN  IF immediate <= 0
        THEN [ok |-> TRUE, msg |-> "Proposed full scheduling for tomorrow.",
              plan |-> PaymentPlan(inv.amount, inv.currency, 0, inv.amount, Some(now + 1))]
        ELSE IF remainder > 0
        THEN [ok |-> TRUE, msg |-> "Proposed split: partial now, remainder tomorrow.",
              plan |-> PaymentPlan(inv.amount, inv.currency, immediate, remainder, Some(now + 1))]
        ELSE [ok |-> TRUE, msg |-> "Proposed full payment now.",
              plan |-> PaymentPlan(inv.amount, inv.currency, inv.amount, 0, None)]

(* tool_propose_plan that takes the whole daily limit as still available *)
tool_propose_plan_ignore_spent(m, acct, now) ==
    LET inv == m.invoice
        immediate0 == Min(inv.amount, acct.balance_cents)
        remaining_limit == Max(0, acct.daily_limit_cents)
        immediate == Min(immediate0, remaining_limit)
        remainder == inv.amount - immediate
    IN  IF immediate <= 0
        THEN [ok |-> TRUE, msg |-> "Proposed full scheduling for tomorrow.",
              plan |-> PaymentPlan(inv.amount, inv.currency, 0, inv.amount, Some(now + 1))]
        ELSE IF remainder > 0
        THEN [ok |-> TRUE, msg |-> "Proposed split: partial now, remainder tomorrow.",
              plan |-> PaymentPlan(inv.amount, inv.currency, immediate, remainder, Some(now + 1))]
        ELSE [ok |-> TRUE, msg |-> "Proposed full payment now.",
              plan |-> PaymentPlan(inv.amount, inv.currency, inv.amount, 0, None)]

(* tool_propose_plan that leaves the balance out of the immediate part *)
tool_propose_plan_no_balance(m, acct, now) ==
    LET inv == m.invoice
        remaining_limit == Max(0, acct.daily_limit_cents - acct.spent_today_cents)
        immediate == Min(inv.amount, remaining_limit)
        remainder == inv.amount - immediate
    IN  IF immediate <= 0
        THEN [ok |-> TRUE, msg |-> "Proposed full scheduling for tomorrow.",
              plan |-> PaymentPlan(inv.amount, inv.currency, 0, inv.amount, Some(now + 1))]
        ELSE IF remainder > 0
        THEN [ok |-> TRUE, msg |-> "Proposed split: partial now, remainder tomorrow.",
              plan |-> PaymentPlan(inv.amount, inv.currency, immediate, remainder, Some(now + 1))]
        ELSE [ok |-> TRUE, msg |-> "Proposed full payment now.",
              plan |-> PaymentPlan(inv.amount, inv.currency, inv.amount, 0, None)]

(* tool_propose_plan with the remainder taken before the daily limit is applied *)
tool_propose_plan_early_remainder(m, acct, now) ==
    LET inv == m.invoice
        immediate0 == Min(inv.amount, acct.balance_cents)
        remaining_limit == Max(0, acct.daily_limit_cents - acct.spent_today_cents)
        immediate == Min(immediate0, remaining_limit)
        remainder == inv.amount - immediate0
    IN  IF immediate <= 0
        THEN [ok |-> TRUE, msg |-> "Proposed full scheduling for tomorrow.",
              plan |-> PaymentPlan(inv.amount, inv.currency, 0, inv.amount, Some(now + 1))]
        ELSE IF remainder > 0
        THEN [ok |-> TRUE, msg |-> "Proposed split: partial now, remainder tomorrow.",
              plan |-> PaymentPlan(inv.amount, inv.currency, immediate, remainder, Some(now + 1))]
        ELSE [ok |-> TRUE, msg |-> "Proposed full payment now.",
              plan |-> PaymentPlan(inv.amount, inv.currency, inv.amount, 0, None)]

tool_propose_plan(m, acct, now) ==
    LET inv == m.invoice
        immediate0 == Min(inv.amount, acct.balance_cents)
        remaining_limit == Max(0, acct.daily_limit_cents - acct.spent_today_cents)
        immediate == Min(immediate0, remaining_limit)
        remainder == inv.amount - immediate
    IN  IF immediate <= 0
        THEN [ok |-> TRUE, msg |-> "Proposed full scheduling for tomorrow.",
              plan |-> PaymentPlan(inv.amount, inv.currency, 0, inv.amount, Some(now + 1))]
        ELSE IF remainder > 0
        THEN [ok |-> TRUE, msg |-> "Proposed split: partial now, remainder tomorrow.",
              plan |-> PaymentPlan(inv.amount, inv.currency, immediate, remainder, Some(now + 1))]
        ELSE [ok |-> TRUE, msg |-> "Proposed full payment now.",
              plan |-> PaymentPlan(inv.amount, inv.currency, inv.amount, 0, None)]

(* tool_execute_payment that debits the balance but does not count the spending *)
tool_execute_payment_no_spent(acct, cents, currency) ==
    IF cents <= 0
    THEN [ok |-> TRUE, msg |-> "Nothing to execute.", id |-> "uuid", acct |-> acct]
    ELSE IF acct.balance_cents < cents
    THEN [ok |-> FALSE, msg |-> "Execution failed: insufficient funds.", id |-> "", acct |-> acct]
    ELSE [ok |-> TRUE, msg |-> "Executed " \o Fmt2(cents) \o " " \o currency \o ".", id |-> "uuid",
          acct |-> [acct EXCEPT !.balance_cents = @ - cents]]

(* tool_execute_payment that debits before it tests the balance *)
tool_execute_payment_debit_first(acct, cents, currency) ==
    LET debited == [acct EXCEPT !.balance_cents = @ - cents, !.spent_today_cents = @ + cents]
    IN  IF cents <= 0
        THEN [ok |-> TRUE, msg |-> "Nothing to execute.", id |-> "uuid", acct |-> acct]
        ELSE IF acct.balance_cents < cents
        THEN [ok |-> FALSE, msg |-> "Execution failed: insufficient funds.", id |-> "",
              acct |-> debited]
        ELSE [ok |-> TRUE, msg |-> "Executed " \o Fmt2(cents) \o " " \o currency \o ".",
              id |-> "uuid", acct |-> debited]

(* tool_execute_payment whose nothing-to-do test is cents < 0 *)
tool_execute_payment_lt(acct, cents, currency) ==
    IF cents < 0
    THEN [ok |-> TRUE, msg |-> "Nothing to execute.", id |-> "uuid", acct |-> acct]
    ELSE IF acct.balance_cents < cents
    THEN [ok |-> FALSE, msg |-> "Execution failed: insufficient funds.", id |-> "", acct |-> acct]
    ELSE [ok |-> TRUE, msg |-> "Executed " \o Fmt2(cents) \o " " \o currency \o ".", id |-> "uuid",
          acct |-> [acct EXCEPT !.balance_cents = @ - cents, !.spent_today_cents = @ + cents]]

(* the returned record carries the Account as the call leaves it *)
tool_execute_payment(acct, cents, currency) ==
    IF cents <= 0
    THEN [ok |-> TRUE, msg |-> "Nothing to execute.", id |-> "uuid", acct |-> acct]
    ELSE IF acct.balance_cents < cents
    THEN [ok |-> FALSE, msg |-> "Execution failed: insufficient funds.", id |-> "", acct |-> acct]
    ELSE [ok |-> TRUE, msg |-> "Executed " \o Fmt2(cents) \o " " \o currency \o ".", id |-> "uuid",
          acct |-> [acct EXCEPT !.balance_cents = @ - cents, !.spent_today_cents = @ + cents]]

tool_schedule_payment(date, cents, currency) ==
    IF cents <= 0
    THEN [ok |-> TRUE, msg |-> "Nothing to schedule.", id |-> "uuid"]
    ELSE [ok |-> TRUE,
          msg |-> "Scheduled " \o Fmt2(cents) \o " " \o currency \o " for " \o DateStr(date) \o ".",
          id |-> "SCH-" \o "uuid"]

----------------------------------------------------------------------------
(* Reasoner *)

(* "Invoice validated." in line: of the texts the program logs, only the  *)
(* observation of a successful validation contains the phrase (no vendor  *)
(* id or currency of the explored inputs does).                           *)
InLine(line) == line.kind = "Observation" /\ line.text = "Invoice validated."

(* next_action that executes while executed <= immediate *)
next_action_execute_le(m) ==
    IF ~(\E i \in 1..Len(m.audit_log) : InLine(m.audit_log[i])) THEN "validate_invoice"
    ELSE IF m.vendor_kyc_ok = None THEN "run_kyc"
    ELSE IF m.vendor_aml_ok = None THEN "run_aml"
    ELSE IF m.payment_plan = None THEN "propose_plan"
    ELSE IF m.executed_amount_cents <= m.payment_plan[1].immediate_cents THEN "execute_immediate"
    ELSE IF ~m.scheduled /\ m.payment_plan[1].scheduled_cents > 0 THEN "schedule_remainder"
    ELSE "None"

(* next_action with the scheduling guard tested before the execution guard *)
next_action_schedule_first(m) ==
    IF ~(\E i \in 1..Len(m.audit_log) : InLine(m.audit_log[i])) THEN "validate_invoice"
    ELSE IF m.vendor_kyc_ok = None THEN "run_kyc"
    ELSE IF m.vendor_aml_ok = None THEN "run_aml"
    ELSE IF m.payment_plan = None THEN "propose_plan"
    ELSE IF ~m.scheduled /\ m.payment_plan[1].scheduled_cents > 0 THEN "schedule_remainder"
    ELSE IF m.executed_amount_cents < m.payment_plan[1].immediate_cents THEN "execute_immediate"
    ELSE "None"

(* next_action whose propose_plan guard tests the executed amount, not the plan *)
next_action_repropose(m) ==
    IF ~(\E i \in 1..Len(m.audit_log) : InLine(m.audit_log[i])) THEN "validate_invoice"
    ELSE IF m.vendor_kyc_ok = None THEN "run_kyc"
    ELSE IF m.vendor_aml_ok = None THEN "run_aml"
    ELSE IF m.payment_plan = None \/ (m.executed_amount_cents > 0 /\ ~m.scheduled)
         THEN "propose_plan"
    ELSE IF m.executed_amount_cents < m.payment_plan[1].immediate_cents THEN "execute_immediate"
    ELSE IF ~m.scheduled /\ m.payment_plan[1].scheduled_cents > 0 THEN "schedule_remainder"
    ELSE "None"

next_action(m) ==
    IF ~(\E i \in 1..Len(m.audit_log) : InLine(m.audit_log[i])) THEN "validate_invoice"
    ELSE IF m.vendor_kyc_ok = None THEN "run_kyc"
    ELSE IF m.vendor_aml_ok = None THEN "run_aml"
    ELSE IF m.payment_plan = None THEN "propose_plan"
    ELSE IF m.executed_amount_cents < m.payment_plan[1].immediate_cents THEN "execute_immediate"
    ELSE IF ~m.scheduled /\ m.payment_plan[1].scheduled_cents > 0 THEN "schedule_remainder"
    ELSE "None"

----------------------------------------------------------------------------
(* The last handler invocation: its name, amount argument, the Account it  *)
(* was given, and what it returned.                                        *)

Call(tool, cents, before, ok, msg, plan) ==
    [tool |-> tool, cents |-> cents, before |-> before, ok |-> ok, msg |-> msg, plan |-> plan]

NoCall == Call("", 0, None, TRUE, "", None)

(* A run of run_episode that is not the one taking steps: its Memory and   *)
(* its loop locals, with its number and whether the two runs have          *)
(* overlapped.  Where a single run is modelled there is no such run.       *)
Run(id, m, n, at, overlap) == [id |-> id, mem |-> m, step |-> n, pc |-> at, overlap |-> overlap]

NoRun == Run(2, Memory(Invoice(<<>>, 0, "", 0)), 0, "returned", FALSE)

----------------------------------------------------------------------------
(* run_episode: one action per branch of the loop body.  step counts the   *)
(* iterations begun; pc is "loop" while the while-loop runs and "returned" *)
(* after a break.                                                          *)

Init ==
    /\ \E v \in VendorIds, a \in Amounts, c \in Currencies, d \in DueDates :
          mem = Memory(Invoice(v, a, c, d))
    /\ \E b \in Balances, l \in Limits, s \in Spents : account = Account(b, l, s)
    /\ today \in Todays
    /\ step = 0
    /\ pc = "loop"
    /\ call = NoCall
    /\ initial = account
    /\ other = NoRun

Thought(m, n, action) == log(m, "Thought", n, "Deciding to '" \o action \o "'.")

(* a dispatch branch that logs its Observation before its Action *)
Observed_observation_first(m, n, invocation, observation) ==
    log(log(m, "Observation", n, observation), "Action", n, invocation)

(* the Action and Observation lines of one dispatch branch *)
Observed(m, n, invocation, observation) ==
    log(log(m, "Action", n, invocation), "Observation", n, observation)

Done ==
    /\ pc = "loop" /\ step < MaxSteps
    /\ next_action(mem) = "None"
    /\ step' = step + 1
    /\ mem' = log(mem, "Thought", step + 1, "Done.")
    /\ pc' = "returned"
    /\ UNCHANGED <<account, today, call, initial, other>>

ValidateInvoice ==
    /\ pc = "loop" /\ step < MaxSteps
    /\ next_action(mem) = "validate_invoice"
    /\ LET n == step + 1
           r == tool_validate_invoice(mem, today)
       IN  /\ step' = n
           /\ mem' = Observed(Thought(mem, n, "validate_invoice"), n, "validate_invoice()", r.msg)
           /\ call' = Call("validate_invoice", 0, account, r.ok, r.msg, None)
           /\ pc' = IF ~r.ok THEN "returned" ELSE "loop"
    /\ UNCHANGED <<account, today, initial, other>>

(* the run_kyc branch without its break *)
RunKyc_no_break ==
    /\ pc = "loop" /\ step < MaxSteps
    /\ next_action(mem) = "run_kyc"
    /\ LET n == step + 1
           r == tool_run_kyc(mem.invoice.vendor_id)
           m1 == [Thought(mem, n, "run_kyc") EXCEPT !.vendor_kyc_ok = Some(r.ok)]
       IN  /\ step' = n
           /\ mem' = Observed(m1, n, "run_kyc(" \o Str(mem.invoice.vendor_id) \o ")", r.msg)
           /\ call' = Call("run_kyc", 0, account, r.ok, r.msg, None)
           /\ pc' = "loop"
    /\ UNCHANGED <<account, today, initial, other>>

RunKyc ==
    /\ pc = "loop" /\ step < MaxSteps
    /\ next_action(mem) = "run_kyc"
    /\ LET n == step + 1
           r == tool_run_kyc(mem.invoice.vendor_id)
           m1 == [Thought(mem, n, "run_kyc") EXCEPT !.vendor_kyc_ok = Some(r.ok)]
       IN  /\ step' = n
           /\ mem' = Observed(m1, n, "run_kyc(" \o Str(mem.invoice.vendor_id) \o ")", r.msg)
           /\ call' = Call("run_kyc", 0, account, r.ok, r.msg, None)
           /\ pc' = IF ~r.ok THEN "returned" ELSE "loop"
    /\ UNCHANGED <<account, today, initial, other>>

RunAml ==
    /\ pc = "loop" /\ step < MaxSteps
    /\ next_action(mem) = "run_aml"
    /\ LET n == step + 1
           r == tool_run_aml_screening(mem.invoice.vendor_id)
           m1 == [Thought(mem, n, "run_aml") EXCEPT !.vendor_aml_ok = Some(r.ok)]
       IN  /\ step' = n
           /\ mem' = Observed(m1, n, "run_aml(" \o Str(mem.invoice.vendor_id) \o ")", r.msg)
           /\ call' = Call("run_aml", 0, account, r.ok, r.msg, None)
           /\ pc' = IF ~r.ok THEN "returned" ELSE "loop"
    /\ UNCHANGED <<account, today, initial, other>>

ProposePlan ==
    /\ pc = "loop" /\ step < MaxSteps
    /\ next_action(mem) = "propose_plan"
    /\ LET n == step + 1
           r == tool_propose_plan(mem, account, today)
           m1 == [Thought(mem, n, "propose_plan")
                    EXCEPT !.payment_plan = IF r.ok THEN Some(r.plan) ELSE None]
       IN  /\ step' = n
           /\ mem' = Observed(m1, n, "propose_plan()", r.msg)
           /\ call' = Call("propose_plan", 0, account, r.ok, r.msg, Some(r.plan))
    /\ UNCHANGED <<account, pc, today, initial, other>>

(* the execute_immediate branch that does not record the executed amount *)
ExecuteImmediate_no_record ==
    /\ pc = "loop" /\ step < MaxSteps
    /\ next_action(mem) = "execute_immediate"
    /\ LET n == step + 1
           plan == mem.payment_plan[1]
           cents == plan.immediate_cents
           r == tool_execute_payment(account, cents, plan.currency)
           m1 == Observed(Thought(mem, n, "execute_immediate"), n,
                          "execute_payment(" \o Fmt2(cents) \o " " \o plan.currency \o ")",
                          r.msg \o " (txn=" \o r.id \o ")")
       IN  /\ step' = n
           /\ account' = r.acct
           /\ mem' = m1
           /\ call' = Call("execute_payment", cents, account, r.ok, r.msg, None)
    /\ UNCHANGED <<pc, today, initial, other>>

(* the execute_immediate branch leaving the loop when the payment fails *)
ExecuteImmediate_break_on_failure ==
    /\ pc = "loop" /\ step < MaxSteps
    /\ next_action(mem) = "execute_immediate"
    /\ LET n == step + 1
           plan == mem.payment_plan[1]
           cents == plan.immediate_cents
           r == tool_execute_payment(account, cents, plan.currency)
           m1 == Observed(Thought(mem, n, "execute_immediate"), n,
                          "execute_payment(" \o Fmt2(cents) \o " " \o plan.currency \o ")",
                          r.msg \o " (txn=" \o r.id \o ")")
       IN  /\ step' = n
           /\ account' = r.acct
           /\ mem' = IF r.ok THEN [m1 EXCEPT !.executed_amount_cents = cents] ELSE m1
           /\ call' = Call("execute_payment", cents, account, r.ok, r.msg, None)
           /\ pc' = IF r.ok THEN "loop" ELSE "returned"
    /\ UNCHANGED <<today, initial, other>>

ExecuteImmediate ==
    /\ pc = "loop" /\ step < MaxSteps
    /\ next_action(mem) = "execute_immediate"
    /\ LET n == step + 1
           plan == mem.payment_plan[1]
           cents == plan.immediate_cents
           r == tool_execute_payment(account, cents, plan.currency)
           m1 == Observed(Thought(mem, n, "execute_immediate"), n,
                          "execute_payment(" \o Fmt2(cents) \o " " \o plan.currency \o ")",
                          r.msg \o " (txn=" \o r.id \o ")")
       IN  /\ step' = n
           /\ account' = r.acct
           /\ mem' = IF r.ok THEN [m1 EXCEPT !.executed_amount_cents = cents] ELSE m1
           /\ call' = Call("execute_payment", cents, account, r.ok, r.msg, None)
    /\ UNCHANGED <<pc, today, initial, other>>

ScheduleRemainder ==
    /\ pc = "loop" /\ step < MaxSteps
    /\ next_action(mem) = "schedule_remainder"
    /\ LET n == step + 1
           plan == mem.payment_plan[1]
           cents == plan.scheduled_cents
           date == plan.scheduled_date
           r == tool_schedule_payment(date, cents, plan.currency)
           m1 == Observed(Thought(mem, n, "schedule_remainder"), n,
                          "schedule_payment(" \o Fmt2(cents) \o " " \o plan.currency
                              \o " on " \o DateStr(date) \o ")",
                          r.msg \o " (id=" \o r.id \o ")")
       IN  /\ step' = n
           /\ mem' = IF r.ok THEN [m1 EXCEPT !.scheduled = TRUE] ELSE m1
           /\ call' = Call("schedule_payment", cents, account, r.ok, r.msg, None)
    /\ UNCHANGED <<account, pc, today, initial, other>>

Next ==
    \/ Done
    \/ ValidateInvoice
    \/ RunKyc
    \/ RunAml
    \/ ProposePlan
    \/ ExecuteImmediate
    \/ ScheduleRemainder

Spec == Init /\ [][Next]_vars

(* run_episode is straight-line synchronous code: while the loop has not   *)
(* returned, the next iteration is eventually taken.                       *)
SpecFair == Spec /\ WF_vars(Next)

----------------------------------------------------------------------------
(* The handlers called directly, on any account and with any amount.       *)

ToolsInit ==
    /\ \E a \in SmallCents(MaxAmount), c \in Currencies :
          mem = Memory(Invoice(<<"A", "C", "M", "E", "_", "C", "O">>, a, c, 45))
    /\ \E b \in SmallCents(MaxBalance), l \in SmallCents(MaxLimit), s \in Spents :
          account = Account(b, l, s)
    /\ today \in Todays
    /\ step = 0
    /\ pc = "loop"
    /\ call = NoCall
    /\ initial = account
    /\ other = NoRun

CallProposePlan ==
    /\ LET r == tool_propose_plan(mem, account, today)
       IN  call' = Call("propose_plan", 0, account, r.ok, r.msg, Some(r.plan))
    /\ UNCHANGED <<mem, account, step, pc, today, initial, other>>

CallExecutePayment ==
    /\ \E cents \in CentsArgs :
          LET r == tool_execute_payment(account, cents, mem.invoice.currency)
          IN  /\ account' = r.acct
              /\ call' = Call("execute_payment", cents, account, r.ok, r.msg, None)
    /\ UNCHANGED <<mem, step, pc, today, initial, other>>

CallSchedulePayment ==
    /\ \E cents \in CentsArgs :
          LET r == tool_schedule_payment(Some(today + 1), cents, mem.invoice.currency)
          IN  call' = Call("schedule_payment", cents, account, r.ok, r.msg, None)
    /\ UNCHANGED <<mem, account, step, pc, today, initial, other>>

CallCheckBalance ==
    /\ \E cents \in CentsArgs :
          LET r == tool_check_balance(account, cents)
          IN  call' = Call("check_balance", cents, account, r.ok, r.msg, None)
    /\ UNCHANGED <<mem, account, step, pc, today, initial, other>>

CallCheckDailyLimit ==
    /\ \E cents \in CentsArgs :
          LET r == tool_check_daily_limit(account, cents)
          IN  call' = Call("check_daily_limit", cents, account, r.ok, r.msg, None)
    /\ UNCHANGED <<mem, account, step, pc, today, initial, other>>

ToolsNext ==
    \/ CallProposePlan
    \/ CallExecutePayment
    \/ CallSchedulePayment
    \/ CallCheckBalance
    \/ CallCheckDailyLimit

SpecTools == ToolsInit /\ [][ToolsNext]_vars

----------------------------------------------------------------------------
(* The Reasoner asked for the next action on any Memory a caller can hand  *)
(* it: flags unset, true or false, with or without a plan, and an audit    *)
(* log that does or does not record a successful validation.               *)

SnapshotLogs ==
    { <<>>,
      << Line("Thought", 1, "Deciding to 'validate_invoice'."),
         Line("Action", 1, "validate_invoice()"),
         Line("Observation", 1, "Invoice is too old.") >>,
      << Line("Thought", 1, "Deciding to 'validate_invoice'."),
         Line("Action", 1, "validate_invoice()"),
         Line("Observation", 1, "Invoice validated.") >> }

SnapshotFlags == {None, Some(TRUE), Some(FALSE)}

SnapshotPlans ==
    {None} \cup
    { Some(PaymentPlan(i + s, "USD", i, s, IF s > 0 THEN Some(41) ELSE None)) :
          i \in 0..MaxPlanPart, s \in 0..MaxPlanPart }

PlannerInit ==
    /\ \E l \in SnapshotLogs, k \in SnapshotFlags, a \in SnapshotFlags, p \in SnapshotPlans,
          e \in 0..MaxPlanPart, sch \in BOOLEAN :
          mem = [Memory(Invoice(<<"A", "C", "M", "E", "_", "C", "O">>, 2 * MaxPlanPart, "USD", 45))
                   EXCEPT !.audit_log = l, !.vendor_kyc_ok = k, !.vendor_aml_ok = a,
                          !.payment_plan = p, !.executed_amount_cents = e, !.scheduled = sch]
    /\ account = Account(MaxBalance, MaxLimit, 0)
    /\ today = 40
    /\ step = 0
    /\ pc = "loop"
    /\ call = NoCall
    /\ initial = account
    /\ other = NoRun

(* reasoner.next_action(mem); the action name is recorded as the call's message *)
CallNextAction ==
    /\ call' = Call("next_action", 0, account, TRUE, next_action(mem), None)
    /\ UNCHANGED <<mem, account, step, pc, today, initial, other>>

PlannerNext == CallNextAction

SpecPlanner == PlannerInit /\ [][PlannerNext]_vars

----------------------------------------------------------------------------
(* Two runs of run_episode, each with its own Memory, on one Account.  The *)
(* variables mem, step, pc are those of the run that takes the next loop   *)
(* iteration; other holds the run that waits.  Switch hands control from   *)
(* one run to the other between two loop iterations.                       *)

SharedBalances == 0..(2 * MaxBalance)

SharedInit ==
    /\ \E a1 \in 1..MaxAmount, a2 \in 1..MaxAmount :
          /\ mem = Memory(Invoice(<<"A", "C", "M", "E", "_", "C", "O">>, a1, "USD", 45))
          /\ other = Run(2, Memory(Invoice(<<"A", "C", "M", "E", "_", "C", "O">>, a2, "USD", 45)),
                         0, "loop", FALSE)
    /\ \E b \in SharedBalances, l \in 0..MaxLimit, s \in 0..MaxSpent :
          account = Account(b, l, s)
    /\ today = 40
    /\ step = 0
    /\ pc = "loop"
    /\ call = NoCall
    /\ initial = account

(* The waiting run takes over.  The runs overlap when the run set aside    *)
(* has begun and has not returned.                                         *)
Switch ==
    /\ other.pc = "loop"
    /\ mem' = other.mem
    /\ step' = other.step
    /\ pc' = other.pc
    /\ other' = Run(3 - other.id, mem, step, pc, other.overlap \/ (step > 0 /\ pc = "loop"))
    /\ UNCHANGED <<account, today, call, initial>>

SharedNext ==
    \/ Next
    \/ Switch

SpecShared == SharedInit /\ [][SharedNext]_vars

----------------------------------------------------------------------------
(* Vocabulary of the properties *)

(* the Thought lines of the audit log, in order: the actions chosen so far *)
Thoughts == SelectSeq(mem.audit_log, LAMBDA line : line.kind = "Thought")
ActionTrace == [i \in 1..Len(Thoughts) |-> Thoughts[i].text]

IsPrefix(s, t) == Len(s) <= Len(t) /\ \A i \in 1..Len(s) : s[i] = t[i]

(* the run's inputs: a valid invoice whose vendor passes both screenings *)
ValidInvoice == tool_validate_invoice(Memory(mem.invoice), today).ok
VendorPasses ==
    /\ tool_run_kyc(mem.invoice.vendor_id).ok
    /\ tool_run_aml_screening(mem.invoice.vendor_id).ok

(* what the account can pay at construction *)
Payable == Min(initial.balance_cents, initial.daily_limit_cents - initial.spent_today_cents)

SplitInputs == ValidInvoice /\ VendorPasses /\ 0 < Payable /\ Payable < mem.invoice.amount

DemoInputs ==
    /\ ValidInvoice /\ VendorPasses
    /\ mem.invoice.amount = DemoAmount
    /\ initial = Account(DemoBalance, DemoLimit, 0)

SplitOrder ==
    << "Deciding to 'validate_invoice'.", "Deciding to 'run_kyc'.", "Deciding to 'run_aml'.",
       "Deciding to 'propose_plan'.", "Deciding to 'execute_immediate'.",
       "Deciding to 'schedule_remainder'.", "Done." >>

----------------------------------------------------------------------------
(* C1: a run on a valid invoice, a vendor passing KYC and AML and an       *)
(* account that can pay a positive part of the invoice but not all of it   *)
(* chooses validate_invoice, run_kyc, run_aml, propose_plan,               *)
(* execute_immediate, schedule_remainder, done in exactly that order; for  *)
(* amount 25000, balance 18000, limit 50000, spent 0 the plan is 18000 now *)
(* and 7000 scheduled and the run ends with balance 0, spent_today 18000.  *)
C1_SplitRunOrder ==
    /\ SplitInputs =>
          /\ IsPrefix(ActionTrace, SplitOrder)
          /\ (pc = "returned" <=> ActionTrace = SplitOrder)
    /\ DemoInputs =>
          /\ mem.payment_plan # None =>
                /\ mem.payment_plan[1].immediate_cents = 18000
                /\ mem.payment_plan[1].scheduled_cents = 7000
          /\ pc = "returned" =>
                /\ mem.payment_plan # None
                /\ account.balance_cents = 0
                /\ account.spent_today_cents = 18000

C1_Witness ==
    /\ DemoInputs /\ SplitInputs
    /\ pc = "returned"
    /\ ActionTrace = SplitOrder
    /\ account.balance_cents = 0

(* C2: for every invoice and every account, negative values and            *)
(* spent_today > daily_limit included, the plan propose_plan returns has   *)
(* immediate + scheduled = total = invoice.amount.                         *)
C2_PlanSumsToTotal ==
    call.tool = "propose_plan" =>
        /\ call.plan[1].immediate_cents + call.plan[1].scheduled_cents = call.plan[1].total_cents
        /\ call.plan[1].total_cents = mem.invoice.amount

C2_Witness ==
    /\ call.tool = "propose_plan"
    /\ call.before.balance_cents > 0
    /\ call.before.spent_today_cents < call.before.daily_limit_cents
    /\ call.plan[1].scheduled_cents > 0
    /\ call.plan[1].immediate_cents > 0

C2_WitnessOverspent ==
    /\ call.tool = "propose_plan"
    /\ call.before.balance_cents < 0
    /\ call.before.spent_today_cents > call.before.daily_limit_cents
    /\ mem.invoice.amount < 0

(* C3 as stated, violated: for all accounts and invoices the plan has      *)
(* 0 <= immediate <= min(invoice.amount, balance, daily_limit -            *)
(* spent_today).                                                           *)
PlanMin3 ==
    Min(Min(mem.invoice.amount, call.before.balance_cents),
        call.before.daily_limit_cents - call.before.spent_today_cents)

C3_Original ==
    call.tool = "propose_plan" =>
        /\ 0 <= call.plan[1].immediate_cents
        /\ call.plan[1].immediate_cents <= PlanMin3

(* C3, amended: for all accounts and invoices the plan has                 *)
(* 0 <= immediate <= max(0, min(invoice.amount, balance, daily_limit -     *)
(* spent_today)); the bound of the claim holds whenever that minimum is    *)
(* not negative.                                                           *)
C3_ImmediateBound ==
    call.tool = "propose_plan" =>
        /\ 0 <= call.plan[1].immediate_cents
        /\ call.plan[1].immediate_cents <= Max(0, PlanMin3)
        /\ PlanMin3 >= 0 => call.plan[1].immediate_cents <= PlanMin3

C3_Witness ==
    /\ call.tool = "propose_plan"
    /\ PlanMin3 < 0
    /\ call.before.balance_cents > 0
    /\ mem.invoice.amount > 0
    /\ call.plan[1].immediate_cents = 0

C3_WitnessBinding ==
    /\ call.tool = "propose_plan"
    /\ PlanMin3 > 0
    /\ call.plan[1].immediate_cents = PlanMin3
    /\ PlanMin3 < call.before.balance_cents
    /\ PlanMin3 < mem.invoice.amount

(* C4 as stated, violated: after any successful execute_payment, for every *)
(* amount, balance has strictly decreased and spent_today strictly         *)
(* increased, each by exactly the amount.                                  *)
C4_Original ==
    (call.tool = "execute_payment" /\ call.ok) =>
        /\ account.balance_cents < call.before.balance_cents
        /\ account.balance_cents = call.before.balance_cents - call.cents
        /\ account.spent_today_cents > call.before.spent_today_cents
        /\ account.spent_today_cents = call.before.spent_today_cents + call.cents

(* C4, amended: after a successful execute_payment with amount > 0,        *)
(* balance has strictly decreased and spent_today strictly increased, each *)
(* by exactly the amount; a successful call with amount <= 0 leaves both   *)
(* unchanged.                                                              *)
C4_ExecuteDelta ==
    (call.tool = "execute_payment" /\ call.ok) =>
        /\ call.cents > 0 =>
              /\ account.balance_cents < call.before.balance_cents
              /\ account.balance_cents = call.before.balance_cents - call.cents
              /\ account.spent_today_cents > call.before.spent_today_cents
              /\ account.spent_today_cents = call.before.spent_today_cents + call.cents
        /\ call.cents <= 0 => account = call.before
        /\ account.daily_limit_cents = call.before.daily_limit_cents

C4_Witness ==
    /\ call.tool = "execute_payment" /\ call.ok
    /\ call.cents > 1
    /\ account.balance_cents > 0
    /\ account # call.before

C4_WitnessNothing ==
    /\ call.tool = "execute_payment" /\ call.ok
    /\ call.cents < 0
    /\ account = call.before

(* C5, violated by the code: after a successful execute_payment on an      *)
(* account that had balance >= 0 and 0 <= spent_today <= daily_limit,      *)
(* balance and spent_today are still >= 0 and spent_today <= daily_limit,  *)
(* for every amount.                                                       *)
C5_StaysWithinLimit ==
    ( /\ call.tool = "execute_payment" /\ call.ok
      /\ call.before.balance_cents >= 0
      /\ 0 <= call.before.spent_today_cents
      /\ call.before.spent_today_cents <= call.before.daily_limit_cents ) =>
        /\ account.balance_cents >= 0
        /\ account.spent_today_cents >= 0
        /\ account.spent_today_cents <= account.daily_limit_cents

(* the audit log holds a Thought that chose the given action *)
Chose(action) == \E i \in 1..Len(ActionTrace) : ActionTrace[i] = "Deciding to '" \o action \o "'."

(* an execute_immediate step has run and its payment went through *)
ExecutedImmediate ==
    /\ Chose("execute_immediate")
    /\ mem.executed_amount_cents = mem.payment_plan[1].immediate_cents

(* C6: in every run from a fresh Memory, whatever the initial account,     *)
(* every state after a successful execute_immediate step has balance >= 0  *)
(* and spent_today <= daily_limit.                                         *)
C6_RunKeepsAccountInvariant ==
    ExecutedImmediate =>
        /\ account.balance_cents >= 0
        /\ account.spent_today_cents <= account.daily_limit_cents

C6_Witness ==
    /\ ExecutedImmediate
    /\ pc = "returned"
    /\ initial.spent_today_cents > 0
    /\ account.spent_today_cents = account.daily_limit_cents

C6_WitnessDrained ==
    /\ ExecutedImmediate
    /\ account.balance_cents = 0
    /\ account.spent_today_cents < account.daily_limit_cents

(* C7: for an invoice with amount <= 0, whatever its currency and due      *)
(* date, validate_invoice fails with the invalid-amount message and the    *)
(* run halts in its first iteration, the audit log being exactly the       *)
(* Thought/Action/Observation triple of the validation step.               *)
C7_InvalidAmountHalts ==
    mem.invoice.amount <= 0 =>
        \/ step = 0 /\ pc = "loop" /\ mem.audit_log = <<>>
        \/ /\ step = 1 /\ pc = "returned"
           /\ call.tool = "validate_invoice" /\ ~call.ok
           /\ call.msg = "Invalid invoice amount."
           /\ mem.audit_log = << Line("Thought", 1, "Deciding to 'validate_invoice'."),
                                 Line("Action", 1, "validate_invoice()"),
                                 Line("Observation", 1, "Invalid invoice amount.") >>

C7_Witness ==
    /\ mem.invoice.amount <= 0
    /\ mem.invoice.currency \notin SupportedCurrencies
    /\ mem.invoice.due_date < today - StaleDays
    /\ pc = "returned"
    /\ Len(mem.audit_log) = 3

(* C8: when validation, KYC or AML fails in a run from a fresh Memory, the *)
(* loop halts in that iteration right after the step's observation is      *)
(* logged: no later action is chosen, payment_plan stays unset, the        *)
(* executed amount stays 0, scheduled stays false, and the Account is as   *)
(* it was constructed.                                                     *)
ScreeningFailed ==
    /\ call.tool \in {"validate_invoice", "run_kyc", "run_aml"}
    /\ ~call.ok

C8_FailureHalts ==
    /\ ScreeningFailed =>
          /\ pc = "returned"
          /\ Len(mem.audit_log) = 3 * step
          /\ mem.audit_log[Len(mem.audit_log)] = Line("Observation", step, call.msg)
          /\ ActionTrace[Len(ActionTrace)] = "Deciding to '" \o call.tool \o "'."
          /\ mem.payment_plan = None
          /\ mem.executed_amount_cents = 0
          /\ ~mem.scheduled
          /\ account = initial
    /\ (~ValidInvoice \/ ~VendorPasses) =>
          /\ mem.payment_plan = None
          /\ account = initial
          /\ ~Chose("propose_plan")
          /\ step <= 3
          /\ (pc = "returned" => ScreeningFailed)

C8_Witness ==
    /\ ScreeningFailed
    /\ call.tool = "run_aml"
    /\ pc = "returned"
    /\ step = 3

C8_WitnessKyc ==
    /\ ScreeningFailed
    /\ call.tool = "run_kyc"
    /\ step = 2

C8_WitnessStale ==
    /\ ScreeningFailed
    /\ call.msg = "Invoice is too old."
    /\ step = 1

(* C9: when min(balance, daily_limit - spent_today) <= 0 and the invoice   *)
(* is valid and passes screening, the plan has immediate 0 and scheduled   *)
(* equal to the invoice amount, no step debits the Account (balance and    *)
(* spent_today at the end equal their initial values) and the run ends     *)
(* with scheduled = true.                                                  *)
ScheduleOnlyOrder ==
    << "Deciding to 'validate_invoice'.", "Deciding to 'run_kyc'.", "Deciding to 'run_aml'.",
       "Deciding to 'propose_plan'.", "Deciding to 'schedule_remainder'.", "Done." >>

C9_NothingPayableAllScheduled ==
    (ValidInvoice /\ VendorPasses /\ Payable <= 0) =>
        /\ account = initial
        /\ mem.executed_amount_cents = 0
        /\ mem.payment_plan # None =>
              /\ mem.payment_plan[1].immediate_cents = 0
              /\ mem.payment_plan[1].scheduled_cents = mem.invoice.amount
        /\ IsPrefix(ActionTrace, ScheduleOnlyOrder)
        /\ (pc = "returned" <=> ActionTrace = ScheduleOnlyOrder)
        /\ pc = "returned" => mem.scheduled

C9_Witness ==
    /\ ValidInvoice /\ VendorPasses
    /\ initial.balance_cents = 0
    /\ pc = "returned"
    /\ mem.scheduled

C9_WitnessLimitUsed ==
    /\ ValidInvoice /\ VendorPasses
    /\ initial.balance_cents > 0
    /\ initial.daily_limit_cents - initial.spent_today_cents <= 0
    /\ pc = "returned"
    /\ mem.scheduled

(* C10: execute_payment called with a positive amount greater than the     *)
(* balance returns failure and leaves balance and spent_today unchanged.   *)
C10_InsufficientFundsNoMutation ==
    ( /\ call.tool = "execute_payment"
      /\ call.cents > 0
      /\ call.cents > call.before.balance_cents ) =>
        /\ ~call.ok
        /\ call.msg = "Execution failed: insufficient funds."
        /\ account.balance_cents = call.before.balance_cents
        /\ account.spent_today_cents = call.before.spent_today_cents

C10_Witness ==
    /\ call.tool = "execute_payment"
    /\ call.cents > 0
    /\ call.before.balance_cents > 0
    /\ call.cents > call.before.balance_cents
    /\ ~call.ok

(* C11: execute_payment or schedule_payment called with amount 0, or any   *)
(* amount <= 0, returns success and leaves the Account unchanged, however  *)
(* many such calls are made.                                               *)
C11_NothingToDoSucceeds ==
    (call.tool \in {"execute_payment", "schedule_payment"} /\ call.cents <= 0) =>
        /\ call.ok
        /\ call.msg = (IF call.tool = "execute_payment" THEN "Nothing to execute."
                                                         ELSE "Nothing to schedule.")
        /\ account = call.before

(* a zero-amount execute_payment on an overdrawn account, after the        *)
(* account had already been debited by an earlier call                     *)
C11_Witness ==
    /\ call.tool = "execute_payment" /\ call.cents = 0
    /\ call.ok
    /\ account # initial
    /\ account = call.before

C11_WitnessOverdrawn ==
    /\ call.tool = "execute_payment" /\ call.cents = 0
    /\ call.before.balance_cents < 0
    /\ call.ok

(* C12, violated by the code: for every Memory given to the Planner,       *)
(* next_action returns run_aml only when the KYC flag is true and the AML  *)
(* flag unset, and propose_plan only when the AML flag is true and no plan *)
(* exists; a Memory whose KYC or AML flag is false never leads to run_aml, *)
(* propose_plan, execute_immediate or schedule_remainder.                  *)
C12_PlannerNeedsPassedFlags ==
    call.tool = "next_action" =>
        /\ call.msg = "run_aml" =>
              (mem.vendor_kyc_ok = Some(TRUE) /\ mem.vendor_aml_ok = None)
        /\ call.msg = "propose_plan" =>
              (mem.vendor_aml_ok = Some(TRUE) /\ mem.payment_plan = None)
        /\ (mem.vendor_kyc_ok = Some(FALSE) \/ mem.vendor_aml_ok = Some(FALSE)) =>
              call.msg \notin {"run_aml", "propose_plan", "execute_immediate", "schedule_remainder"}

(* the run's last iteration was an execute_immediate whose payment failed *)
ExecFailed(m) ==
    /\ Len(m.audit_log) > 0
    /\ m.audit_log[Len(m.audit_log)].kind = "Observation"
    /\ m.audit_log[Len(m.audit_log)].text = "Execution failed: insufficient funds. (txn=)"

FailureCount(m) ==
    Cardinality({i \in 1..Len(m.audit_log) :
                    m.audit_log[i].text = "Execution failed: insufficient funds. (txn=)"})

(* a run whose execute_immediate failed is still in its loop, the Planner  *)
(* chooses execute_immediate again, and the payment would fail again       *)
Stuck(m, at) ==
    ExecFailed(m) =>
        /\ at = "loop"
        /\ next_action(m) = "execute_immediate"
        /\ m.executed_amount_cents < m.payment_plan[1].immediate_cents
        /\ m.payment_plan[1].immediate_cents > account.balance_cents

(* C13: a failed execute_immediate leaves executed_amount_cents, the plan, *)
(* the flags and the Account unchanged and does not halt the loop; the     *)
(* Planner re-selects execute_immediate in every later iteration of that   *)
(* run, each of which fails again, so the run never returns.               *)
C13_FailedExecuteRepeats ==
    [][ /\ (other' = other /\ ExecFailed(mem')) =>
              /\ account' = account
              /\ mem' = [mem EXCEPT !.audit_log = mem'.audit_log]
              /\ Len(mem'.audit_log) = Len(mem.audit_log) + 3
              /\ mem'.audit_log[Len(mem.audit_log) + 1] =
                    Line("Thought", step', "Deciding to 'execute_immediate'.")
              /\ pc' = "loop"
        /\ (other' = other /\ ExecFailed(mem)) => ExecFailed(mem')
        /\ Stuck(mem, pc)' /\ Stuck(other.mem, other.pc)'
      ]_vars

C13_Witness ==
    /\ ExecFailed(mem)
    /\ FailureCount(mem) >= 2
    /\ pc = "loop"
    /\ other.pc = "returned"

(* both runs have executed their immediate part and the Account has spent  *)
(* more today than its daily limit                                         *)
OverLimitAfterBoth ==
    /\ mem.executed_amount_cents > 0
    /\ other.mem.executed_amount_cents > 0
    /\ account.spent_today_cents > account.daily_limit_cents

(* one of the runs has had an execute_immediate fail *)
SomeRunFailedExecute == FailureCount(mem) > 0 \/ FailureCount(other.mem) > 0

(* C19: two runs that share one Account and whose loop iterations          *)
(* interleave are not safe: some interleaving ends with spent_today above  *)
(* daily_limit after both executed, and some interleaving has one run's    *)
(* execute_immediate fail, after which that run never returns; runs that   *)
(* are serialized (one returns before the other starts) reach neither.     *)
C19_SerializedRunsAreSafe ==
    ~other.overlap =>
        /\ ~OverLimitAfterBoth
        /\ ~SomeRunFailedExecute
        /\ (mem.executed_amount_cents > 0 \/ other.mem.executed_amount_cents > 0) =>
              /\ account.balance_cents >= 0
              /\ account.spent_today_cents <= account.daily_limit_cents

C19_Witness ==
    /\ other.overlap
    /\ OverLimitAfterBoth
    /\ pc = "returned" /\ other.pc = "returned"

C19_WitnessStuck ==
    /\ other.overlap
    /\ ExecFailed(mem)
    /\ FailureCount(mem) >= 2
    /\ other.pc = "returned"
    /\ other.mem.executed_amount_cents > 0

(* serialized runs in which both runs debit the Account *)
C19_WitnessSerial ==
    /\ ~other.overlap
    /\ mem.executed_amount_cents > 0
    /\ other.mem.executed_amount_cents > 0
    /\ pc = "returned" /\ other.pc = "returned"

(* C14: from a fresh Memory, for every invoice and every account,          *)
(* run_episode returns after at most 7 iterations, and execute_immediate,  *)
(* when chosen, never fails: when it runs, plan.immediate <= balance.      *)
C14_Bounded ==
    /\ step <= 7
    /\ step = 7 => pc = "returned"
    /\ (pc = "loop" /\ next_action(mem) = "execute_immediate") =>
          mem.payment_plan[1].immediate_cents <= account.balance_cents
    /\ call.tool = "execute_payment" => call.ok
    /\ FailureCount(mem) = 0

C14_RunTerminates == []C14_Bounded /\ <>(pc = "returned")

C14_Witness ==
    /\ step = 7
    /\ pc = "returned"
    /\ Chose("execute_immediate")
    /\ account.balance_cents = 0

(* how many times the run has chosen the given action *)
TimesChosen(action) ==
    Cardinality({i \in 1..Len(ActionTrace) : ActionTrace[i] = "Deciding to '" \o action \o "'."})

(* C15: in a run from a fresh Memory, propose_plan is chosen at most once  *)
(* and, once payment_plan is set, its total, immediate, scheduled and date *)
(* fields never change for the rest of the run.                            *)
C15_PlanSetOnce ==
    [][ /\ mem.payment_plan # None => mem'.payment_plan = mem.payment_plan
        /\ TimesChosen("propose_plan")' <= 1
        /\ (mem'.payment_plan # None) <=> (TimesChosen("propose_plan")' = 1)
      ]_vars

C15_Witness ==
    /\ mem.payment_plan # None
    /\ mem.payment_plan[1].immediate_cents > 0
    /\ mem.payment_plan[1].scheduled_cents > 0
    /\ account # initial
    /\ mem.scheduled
    /\ pc = "returned"

(* the run ended because the Planner returned None *)
EndedDone ==
    /\ pc = "returned"
    /\ Len(ActionTrace) > 0
    /\ ActionTrace[Len(ActionTrace)] = "Done."

(* C16: when a run from a fresh Memory ends with the Planner returning     *)
(* done, executed_amount_cents = plan.immediate, scheduled is true iff     *)
(* plan.scheduled > 0, executed_amount_cents + plan.scheduled =            *)
(* invoice.amount, and the Account ends with balance = initial balance -   *)
(* plan.immediate and spent_today = initial spent_today + plan.immediate.  *)
C16_DoneAccountsForInvoice ==
    EndedDone =>
        /\ mem.payment_plan # None
        /\ mem.executed_amount_cents = mem.payment_plan[1].immediate_cents
        /\ mem.scheduled <=> (mem.payment_plan[1].scheduled_cents > 0)
        /\ mem.executed_amount_cents + mem.payment_plan[1].scheduled_cents = mem.invoice.amount
        /\ account.balance_cents = initial.balance_cents - mem.payment_plan[1].immediate_cents
        /\ account.spent_today_cents =
              initial.spent_today_cents + mem.payment_plan[1].immediate_cents
        /\ account.daily_limit_cents = initial.daily_limit_cents

C16_Witness ==
    /\ EndedDone
    /\ mem.payment_plan[1].immediate_cents > 0
    /\ mem.payment_plan[1].scheduled_cents > 0
    /\ initial.spent_today_cents > 0

C16_WitnessPaidInFull ==
    /\ EndedDone
    /\ mem.payment_plan[1].scheduled_cents = 0
    /\ ~mem.scheduled

C16_WitnessAllScheduled ==
    /\ EndedDone
    /\ mem.payment_plan[1].immediate_cents = 0
    /\ mem.scheduled

RunActions ==
    {"validate_invoice", "run_kyc", "run_aml", "propose_plan", "execute_immediate",
     "schedule_remainder"}

(* what the run has taken from the Account so far *)
Debited == initial.balance_cents - account.balance_cents

(* C17 as stated, violated: in a run from a fresh Memory each of the six   *)
(* actions is chosen at most once, the Account is debited at most once,    *)
(* and the total debited never exceeds invoice.amount.                     *)
C17_Original ==
    /\ \A a \in RunActions : TimesChosen(a) <= 1
    /\ Debited \in {0, mem.executed_amount_cents}
    /\ step > 0 => Debited <= mem.invoice.amount

(* C17, amended: in a run from a fresh Memory each of the six actions is   *)
(* chosen at most once, the Account is debited at most once, by the plan's *)
(* immediate amount, and the total debited never exceeds invoice.amount    *)
(* when that amount is not negative; for a negative amount nothing is      *)
(* debited.                                                                *)
C17_EachActionOnce ==
    /\ \A a \in RunActions : TimesChosen(a) <= 1
    /\ Debited \in {0, mem.executed_amount_cents}
    /\ account.spent_today_cents - initial.spent_today_cents = Debited
    /\ mem.executed_amount_cents > 0 =>
          mem.executed_amount_cents = mem.payment_plan[1].immediate_cents
    /\ Debited <= Max(0, mem.invoice.amount)
    /\ Debited >= 0

C17_Witness ==
    /\ \A a \in RunActions : TimesChosen(a) = 1
    /\ Debited > 0
    /\ Debited < mem.invoice.amount
    /\ pc = "returned"

C17_WitnessNegativeAmount ==
    /\ mem.invoice.amount < 0
    /\ pc = "returned"
    /\ Debited = 0

(* iteration k left the triple Thought k, Action k, Observation k at       *)
(* lines 3k-2 .. 3k of the audit log                                       *)
TripleAt(k) ==
    /\ 3 * k <= Len(mem.audit_log)
    /\ mem.audit_log[3 * k - 2].kind = "Thought" /\ mem.audit_log[3 * k - 2].step = k
    /\ mem.audit_log[3 * k - 1].kind = "Action" /\ mem.audit_log[3 * k - 1].step = k
    /\ mem.audit_log[3 * k].kind = "Observation" /\ mem.audit_log[3 * k].step = k

(* C18 as stated, violated: each iteration of the loop appends exactly     *)
(* three audit lines, Thought, Action, Observation, with the iteration's   *)
(* step number, so the audit log is 3 times the iterations done long.      *)
C18_Original ==
    /\ Len(mem.audit_log) = 3 * step
    /\ \A k \in 1..step : TripleAt(k)

(* C18, amended: each iteration in which the Planner chooses an action     *)
(* appends exactly three audit lines, Thought, Action, Observation, with   *)
(* the iteration's step number; the last iteration of a run that ends with *)
(* done appends the single line "Thought n: Done.".  So the audit log is   *)
(* 3 times the iterations done long until then, and 3 * (iterations - 1)   *)
(* + 1 long after a run ended with done.                                   *)
C18_AuditTriples ==
    IF EndedDone
    THEN /\ Len(mem.audit_log) = 3 * (step - 1) + 1
         /\ \A k \in 1..(step - 1) : TripleAt(k)
         /\ mem.audit_log[Len(mem.audit_log)] = Line("Thought", step, "Done.")
    ELSE /\ Len(mem.audit_log) = 3 * step
         /\ \A k \in 1..step : TripleAt(k)
         /\ \A i \in 1..Len(mem.audit_log) : mem.audit_log[i].text # "Done."

C18_Witness ==
    /\ EndedDone
    /\ step = 7
    /\ Len(mem.audit_log) = 19

C18_WitnessMidRun ==
    /\ pc = "loop"
    /\ step = 5
    /\ Len(mem.audit_log) = 15

====
